---- MODULE Spec2Model ----
(***************************************************************************)
(* A model of the Retell <-> Groq relay: the WebSocket session loop of     *)
(* server.py (websocket_endpoint) and the streaming relay of llm_groq.py   *)
(* (GroqLlmClient).  One session per connection; the variables of the      *)
(* sessions are functions of the connection.  Spec runs one call, FairSpec *)
(* adds the fairness of the completion stream, SpecTwo runs two calls at   *)
(* once; PromptSpec applies the prompt functions to requests, WebhookSpec  *)
(* handles one POST to /webhook.                                           *)
(*                                                                         *)
(* Python values.  A dict is a function from its keys to their values, so  *)
(* a key that is absent is absent from the DOMAIN.  A value that may be    *)
(* None is a sequence of at most one element: <<>> is None and <<v>> is v. *)
(* A call that may raise returns [raised |-> TRUE, exc |-> name] or        *)
(* [raised |-> FALSE, value |-> v].                                        *)
(***************************************************************************)
EXTENDS Integers, Sequences, FiniteSets, TLC

\* Bounds of the model.
MaxEvents == 3      \* inputs of a run: inbound frames and stream chunks
MaxLen == 12        \* utterances of a transcript given to _prepare_prompt

Conns == {"call-1", "call-2"}

VARIABLES
    pc,         \* where each session's coroutine is suspended
    transport,  \* "open", or "closed" once the peer has gone
    inbox,      \* inbound text frames received by the transport and not yet read
    handled,    \* history: one record per inbound frame read by the loop
    outbound,   \* frames the session has sent, in order
    sentFor,    \* history: for each outbound frame, the index in handled of the
                \* inbound frame whose handling sent it (0: none, the config frame)
    calls,      \* history: the completion requests issued
    log,        \* the records written to the logger
    groq_client,\* app.state.groq_client, the provider client all sessions share
    prompt,     \* a call of _prepare_prompt: its request and what it returned
    webhook     \* a POST to /webhook: the request and the response to it

vars == <<pc, transport, inbox, handled, outbound, sentFor, calls, log,
          groq_client, prompt, webhook>>

-----------------------------------------------------------------------------
\* Python helpers

None == <<>>

Get(d, k) == IF k \in DOMAIN d THEN <<d[k]>> ELSE None

Raise(e) == [raised |-> TRUE, exc |-> e]

Return(v) == [raised |-> FALSE, value |-> v]

\* Mutant: s[:n], the oldest n.
LastN_FirstN(s, n) == SubSeq(s, 1, IF Len(s) > n THEN n ELSE Len(s))

\* s[-n:]
LastN(s, n) == SubSeq(s, IF Len(s) > n THEN Len(s) - n + 1 ELSE 1, Len(s))

\* json.loads: a text frame is garbage (not JSON), or the text of a JSON value
\* that is an array or an object.
json_loads(data) ==
    IF data.kind = "garbage" THEN Raise("JSONDecodeError")
    ELSE Return(data)

-----------------------------------------------------------------------------
\* llm_groq.py

SYSTEM_PROMPT == "You are Megan from Go Green Solar. ..."

NUDGE == "(The caller has been silent for a moment. Gently check in or re-engage them.)"

BEGIN_CONTENT == "Hey there, am I speaking with Marcus?"

WINDOW == 10

\* Mutant: the opening line is sent as a partial frame.
begin_message_Partial ==
    [response_type |-> "response", response_id |-> 0, content |-> BEGIN_CONTENT,
     content_complete |-> FALSE, end_call |-> FALSE]

begin_message ==
    [response_type |-> "response", response_id |-> 0, content |-> BEGIN_CONTENT,
     content_complete |-> TRUE, end_call |-> FALSE]

\* Mutant: a missing role or content is read with a default (utterance.get).
_conversation_to_chat_messages_Lenient(transcript) ==
    Return([i \in 1..Len(transcript) |->
               [role |-> IF Get(transcript[i], "role") = <<"agent">>
                         THEN "assistant" ELSE "user",
                content |-> IF "content" \in DOMAIN transcript[i]
                            THEN transcript[i].content ELSE ""]])

\* Mutant: only agent is renamed, any other role is passed on as it is.
_conversation_to_chat_messages_KeepsRole(transcript) ==
    Return([i \in 1..Len(transcript) |->
               [role |-> IF transcript[i].role = "agent" THEN "assistant"
                         ELSE transcript[i].role,
                content |-> transcript[i].content]])

_conversation_to_chat_messages(transcript) ==
    IF \E i \in 1..Len(transcript) : ~({"role", "content"} \subseteq DOMAIN transcript[i])
    THEN Raise("KeyError")
    ELSE Return([i \in 1..Len(transcript) |->
                    [role |-> IF transcript[i].role = "agent" THEN "assistant" ELSE "user",
                     content |-> transcript[i].content]])

_prepare_prompt(request) ==
    LET system == <<[role |-> "system", content |-> SYSTEM_PROMPT]>>
        transcript == Get(request, "transcript")
        chat == IF transcript # None /\ transcript[1] # <<>>
                THEN _conversation_to_chat_messages(transcript[1])
                ELSE Return(<<>>)
        nudge == IF Get(request, "interaction_type") = <<"reminder_required">>
                 THEN <<[role |-> "user", content |-> NUDGE]>>
                 ELSE <<>>
    IN  IF chat.raised THEN chat
        ELSE Return(system \o LastN(chat.value, WINDOW) \o nudge)

\* The frames draft_response builds.
partial_response(response_id, content) ==
    [response_type |-> "response", response_id |-> response_id, content |-> content,
     content_complete |-> FALSE, end_call |-> FALSE]

\* Mutant: the final frame carries the opening line's response_id.
final_response_IdZero(response_id) ==
    [response_type |-> "response", response_id |-> 0, content |-> "",
     content_complete |-> TRUE, end_call |-> FALSE]

\* Mutant: the final frame ends the call.
final_response_EndsCall(response_id) ==
    [response_type |-> "response", response_id |-> response_id, content |-> "",
     content_complete |-> TRUE, end_call |-> TRUE]

final_response(response_id) ==
    [response_type |-> "response", response_id |-> response_id, content |-> "",
     content_complete |-> TRUE, end_call |-> FALSE]

\* chunk.choices[0].delta if chunk.choices else None
chunk_delta(chunk) == IF chunk.choices # <<>> THEN chunk.choices[1].delta ELSE None

\* Mutant: the chunk is skipped only when its content is None.
chunk_skipped_OnlyNone(chunk) ==
    LET delta == IF chunk.choices # <<>> THEN chunk.choices[1].delta ELSE None
    IN  delta = None \/ delta[1].content = None

\* not delta or not delta.content
chunk_skipped(chunk) ==
    LET delta == chunk_delta(chunk)
    IN  delta = None \/ delta[1].content = None \/ delta[1].content = <<"">>

chunk_content(chunk) == chunk_delta(chunk)[1].content[1]

-----------------------------------------------------------------------------
\* server.py

\* Mutant: the config frame does not ask for call details.
config_event_NoCallDetails ==
    [response_type |-> "config",
     config |-> [auto_reconnect |-> TRUE, call_details |-> FALSE]]

config_event ==
    [response_type |-> "config",
     config |-> [auto_reconnect |-> TRUE, call_details |-> TRUE]]

\* Mutant: the pong carries no timestamp.
pong_NoTimestamp(request) == [response_type |-> "ping_pong", timestamp |-> None]

pong(request) == [response_type |-> "ping_pong", timestamp |-> Get(request, "timestamp")]

\* Mutant: update_only falls into the branch that drafts a response.
Branch_UpdateDrafts(data) ==
    IF json_loads(data).raised THEN "JSONDecodeError"
    ELSE IF json_loads(data).value.kind # "object" THEN "AttributeError"
    ELSE LET interaction_type == Get(json_loads(data).value.fields, "interaction_type")
         IN  IF interaction_type = <<"call_details">> THEN "call_details"
             ELSE IF interaction_type = <<"ping_pong">> THEN "ping_pong"
             ELSE IF interaction_type \in {<<"update_only">>, <<"response_required">>,
                                           <<"reminder_required">>}
                  THEN "draft_response"
             ELSE "unknown"

\* The branch of the loop body an inbound text frame takes.
Branch(data) ==
    IF json_loads(data).raised THEN "JSONDecodeError"
    ELSE IF json_loads(data).value.kind # "object" THEN "AttributeError"
    ELSE LET interaction_type == Get(json_loads(data).value.fields, "interaction_type")
         IN  IF interaction_type = <<"call_details">> THEN "call_details"
             ELSE IF interaction_type = <<"ping_pong">> THEN "ping_pong"
             ELSE IF interaction_type = <<"update_only">> THEN "update_only"
             ELSE IF interaction_type \in {<<"response_required">>, <<"reminder_required">>}
                  THEN "draft_response"
             ELSE "unknown"

-----------------------------------------------------------------------------
\* Inputs: the text frames a peer sends and the chunks a completion stream yields.

Object(fields) == [kind |-> "object", fields |-> fields]

GoodTranscript == <<[role |-> "agent", content |-> "Hey"], [role |-> "user", content |-> "Yes"]>>

NoRoleTranscript == <<[role |-> "agent", content |-> "Hey"], [content |-> "Yes"]>>

NoContentTranscript == <<[role |-> "user"]>>

Texts ==
    { [kind |-> "garbage"],
      [kind |-> "array"],
      Object(<<>>),
      Object([interaction_type |-> "call_details"]),
      Object([interaction_type |-> "ping_pong", timestamp |-> 12345]),
      Object([interaction_type |-> "ping_pong"]),
      Object([interaction_type |-> "update_only", transcript |-> NoRoleTranscript]),
      Object([interaction_type |-> "hangup"]),
      Object([interaction_type |-> "response_required", response_id |-> 1,
              transcript |-> GoodTranscript]),
      Object([interaction_type |-> "reminder_required", response_id |-> 2]),
      Object([interaction_type |-> "response_required", transcript |-> GoodTranscript]),
      Object([interaction_type |-> "response_required", response_id |-> 1,
              transcript |-> NoRoleTranscript]),
      Object([interaction_type |-> "reminder_required", response_id |-> 2,
              transcript |-> NoContentTranscript]) }

Delta(content) == [choices |-> <<[delta |-> <<[content |-> content]>>]>>]

Chunks ==
    { [choices |-> <<>>],
      [choices |-> <<[delta |-> None]>>],
      Delta(None),
      Delta(<<"">>),
      Delta(<<"Hi">>),
      Delta(<<"there">>) }

-----------------------------------------------------------------------------
\* State updates

Put(f, c, v) == [f EXCEPT ![c] = v]

Logged(c, level, msg) == Put(log, c, Append(log[c], [level |-> level, msg |-> msg]))

\* ws.send_json succeeds while the transport is open; once the peer has gone it
\* raises WebSocketDisconnect and the frame is not sent.
CanSend(c) == transport[c] = "open"

\* Mutant: the frame goes out on every connection.
Sent_Broadcast(c, frame, turn) ==
    /\ outbound' = [d \in Conns |-> Append(outbound[d], frame)]
    /\ sentFor' = [d \in Conns |-> Append(sentFor[d], turn)]

Sent(c, frame, turn) ==
    /\ outbound' = Put(outbound, c, Append(outbound[c], frame))
    /\ sentFor' = Put(sentFor, c, Append(sentFor[c], turn))

NothingSent == UNCHANGED <<outbound, sentFor>>

\* Mutant: frames are read while a response is being drafted.
Reading_Anytime(c) == pc[c] \in {"ready", "requesting", "streaming"} /\ inbox[c] # <<>>

\* The loop reads the next text frame.
Reading(c) == pc[c] = "ready" /\ inbox[c] # <<>>

Read(c, outcome) ==
    /\ inbox' = Put(inbox, c, Tail(inbox[c]))
    /\ handled' = Put(handled, c, Append(handled[c],
            [data |-> Head(inbox[c]), outcome |-> outcome, chunks |-> <<>>]))

request(c) == Head(inbox[c]).fields

\* The chunks the completion streams of a connection have yielded so far.
RECURSIVE Yields(_)
Yields(turns) ==
    IF turns = <<>> THEN 0 ELSE Len(Head(turns).chunks) + Yields(Tail(turns))

\* The inputs a connection has had: the frames of its peer and the chunks of its
\* completion streams.
Inputs(c) == Len(handled[c]) + Len(inbox[c]) + Yields(handled[c])

\* The inputs of all connections together.
AllInputs == Inputs("call-1") + Inputs("call-2")

\* The turn draft_response is running.
Turn(c) == Len(handled[c])

Current(c) == handled[c][Turn(c)]

Ended(c, outcome) ==
    handled' = Put(handled, c, [handled[c] EXCEPT ![Turn(c)].outcome = outcome])

Yielded(c, chunk) ==
    handled' = Put(handled, c,
        [handled[c] EXCEPT ![Turn(c)].chunks = Append(Current(c).chunks, chunk)])

\* Mutant: the except blocks log and the loop goes on.
LoopExits_Continues(c, exc, lines) ==
    /\ pc' = Put(pc, c, "ready")
    /\ log' = Put(log, c, log[c] \o lines \o
                IF exc = "WebSocketDisconnect"
                THEN <<[level |-> "info", msg |-> "WebSocket closed"]>>
                ELSE <<[level |-> "error", msg |-> "WebSocket error"]>>)

\* except WebSocketDisconnect / except Exception: log, and leave the loop.  lines
\* are the records the iteration logged before it raised.
LoopExits(c, exc, lines) ==
    /\ pc' = Put(pc, c, "closed")
    /\ log' = Put(log, c, log[c] \o lines \o
                IF exc = "WebSocketDisconnect"
                THEN <<[level |-> "info", msg |-> "WebSocket closed"]>>
                ELSE <<[level |-> "error", msg |-> "WebSocket error"]>>)

-----------------------------------------------------------------------------
\* The environment of a session

PeerSend(c, data) ==
    /\ pc[c] \notin {"connecting", "closed"}
    /\ transport[c] = "open"
    /\ AllInputs < MaxEvents
    /\ inbox' = Put(inbox, c, Append(inbox[c], data))
    /\ UNCHANGED <<pc, transport, handled, outbound, sentFor, calls, log>>
    /\ UNCHANGED <<groq_client, prompt, webhook>>

\* The connection goes away (the peer closes it, or the network drops it).
TransportClose(c) ==
    /\ pc[c] \notin {"connecting", "closed"}
    /\ transport[c] = "open"
    /\ transport' = Put(transport, c, "closed")
    /\ UNCHANGED <<pc, inbox, handled, outbound, sentFor, calls, log>>
    /\ UNCHANGED <<groq_client, prompt, webhook>>

-----------------------------------------------------------------------------
\* websocket_endpoint

\* Connections are served once lifespan has built the provider client and until
\* the server shuts down.
Accept(c) ==
    /\ pc[c] = "connecting"
    /\ groq_client = "open"
    /\ pc' = Put(pc, c, "accepted")
    /\ log' = Logged(c, "info", "WebSocket connected")
    /\ UNCHANGED <<transport, inbox, handled, outbound, sentFor, calls>>
    /\ UNCHANGED <<groq_client, prompt, webhook>>

\* The config frame is sent before the try block: a failure leaves the endpoint.
SendConfig(c) ==
    /\ pc[c] = "accepted"
    /\ IF CanSend(c)
       THEN Sent(c, config_event, 0) /\ pc' = Put(pc, c, "ready")
       ELSE NothingSent /\ pc' = Put(pc, c, "closed")
    /\ UNCHANGED <<transport, inbox, handled, calls, log>>
    /\ UNCHANGED <<groq_client, prompt, webhook>>

\* receive_text with nothing left to read on a closed transport
ReceiveDisconnect(c) ==
    /\ pc[c] = "ready"
    /\ inbox[c] = <<>>
    /\ transport[c] = "closed"
    /\ LoopExits(c, "WebSocketDisconnect", <<>>)
    /\ UNCHANGED <<transport, inbox, handled, outbound, sentFor, calls>>
    /\ UNCHANGED <<groq_client, prompt, webhook>>

\* json.loads raises, or request.get does because the value is no dict
BadPayload(c) ==
    /\ Reading(c)
    /\ Branch(Head(inbox[c])) \in {"JSONDecodeError", "AttributeError"}
    /\ Read(c, "loop_error")
    /\ LoopExits(c, Branch(Head(inbox[c])), <<>>)
    /\ NothingSent
    /\ UNCHANGED <<transport, calls>>
    /\ UNCHANGED <<groq_client, prompt, webhook>>

CallDetails(c) ==
    /\ Reading(c)
    /\ Branch(Head(inbox[c])) = "call_details"
    /\ IF CanSend(c)
       THEN /\ Read(c, "ok")
            /\ Sent(c, begin_message, Turn(c) + 1)
            /\ pc' = pc
            /\ log' = Logged(c, "info", "Call details received")
       ELSE /\ Read(c, "loop_error")
            /\ NothingSent
            /\ LoopExits(c, "WebSocketDisconnect",
                         <<[level |-> "info", msg |-> "Call details received"]>>)
    /\ UNCHANGED <<transport, calls>>
    /\ UNCHANGED <<groq_client, prompt, webhook>>

PingPong(c) ==
    /\ Reading(c)
    /\ Branch(Head(inbox[c])) = "ping_pong"
    /\ IF CanSend(c)
       THEN /\ Read(c, "ok")
            /\ Sent(c, pong(request(c)), Turn(c) + 1)
            /\ UNCHANGED <<pc, log>>
       ELSE /\ Read(c, "loop_error")
            /\ NothingSent
            /\ LoopExits(c, "WebSocketDisconnect", <<>>)
    /\ UNCHANGED <<transport, calls>>
    /\ UNCHANGED <<groq_client, prompt, webhook>>

UpdateOnly(c) ==
    /\ Reading(c)
    /\ Branch(Head(inbox[c])) = "update_only"
    /\ Read(c, "ok")
    /\ NothingSent
    /\ UNCHANGED <<pc, transport, calls, log>>
    /\ UNCHANGED <<groq_client, prompt, webhook>>

UnknownType(c) ==
    /\ Reading(c)
    /\ Branch(Head(inbox[c])) = "unknown"
    /\ Read(c, "ok")
    /\ NothingSent
    /\ log' = Logged(c, "warning", "Unknown interaction type")
    /\ UNCHANGED <<pc, transport, calls>>
    /\ UNCHANGED <<groq_client, prompt, webhook>>

-----------------------------------------------------------------------------
\* GroqLlmClient.draft_response

\* Up to the completion request: _prepare_prompt and request["response_id"] are
\* outside the try block, so what they raise reaches the loop.
DraftResponse(c) ==
    /\ Reading(c)
    /\ Branch(Head(inbox[c])) = "draft_response"
    /\ LET messages == _prepare_prompt(request(c))
       IN  IF messages.raised \/ "response_id" \notin DOMAIN request(c)
           THEN /\ Read(c, "loop_error")
                /\ LoopExits(c, "KeyError", <<>>)
                /\ UNCHANGED calls
           ELSE /\ Read(c, "running")
                /\ calls' = Put(calls, c, Append(calls[c],
                        [turn |-> Turn(c) + 1, messages |-> messages.value]))
                /\ pc' = Put(pc, c, "requesting")
                /\ UNCHANGED log
    /\ NothingSent
    /\ UNCHANGED transport
    /\ UNCHANGED <<groq_client, prompt, webhook>>

\* Mutant: the except block closes the turn with a final frame.
Swallowed_SendsFinal(c, outcome) ==
    /\ Ended(c, outcome)
    /\ log' = Logged(c, "error", "Error streaming from Groq")
    /\ pc' = Put(pc, c, "ready")
    /\ IF CanSend(c)
       THEN Sent(c, final_response(Current(c).data.fields.response_id), Turn(c))
       ELSE NothingSent

\* Mutant: the except block logs and raises again.
Swallowed_Reraises(c, outcome) ==
    /\ Ended(c, outcome)
    /\ LoopExits(c, "Exception", <<[level |-> "error", msg |-> "Error streaming from Groq"]>>)
    /\ NothingSent

\* except Exception: log, send nothing, return to the loop.
Swallowed(c, outcome) ==
    /\ Ended(c, outcome)
    /\ log' = Logged(c, "error", "Error streaming from Groq")
    /\ pc' = Put(pc, c, "ready")
    /\ NothingSent

\* chat.completions.create raises
CreateRaises(c) ==
    /\ pc[c] = "requesting"
    /\ Swallowed(c, "upstream_error")
    /\ UNCHANGED <<transport, inbox, calls>>
    /\ UNCHANGED <<groq_client, prompt, webhook>>

\* chat.completions.create returns the stream
CreateReturns(c) ==
    /\ pc[c] = "requesting"
    /\ pc' = Put(pc, c, "streaming")
    /\ UNCHANGED <<transport, inbox, handled, outbound, sentFor, calls, log>>
    /\ UNCHANGED <<groq_client, prompt, webhook>>

\* Mutant: the partial frame is sent outside the try block, so a failed send
\* reaches the loop.
StreamChunk_SendEscapes(c, chunk) ==
    /\ pc[c] = "streaming"
    /\ AllInputs < MaxEvents
    /\ IF chunk_skipped(chunk)
       THEN /\ Yielded(c, chunk)
            /\ NothingSent
            /\ UNCHANGED <<pc, log>>
       ELSE IF CanSend(c)
       THEN /\ Yielded(c, chunk)
            /\ Sent(c, partial_response(Current(c).data.fields.response_id,
                                        chunk_content(chunk)), Turn(c))
            /\ UNCHANGED <<pc, log>>
       ELSE /\ handled' = Put(handled, c, [handled[c] EXCEPT
                    ![Turn(c)].chunks = Append(Current(c).chunks, chunk),
                    ![Turn(c)].outcome = "send_error"])
            /\ LoopExits(c, "WebSocketDisconnect", <<>>)
            /\ NothingSent
    /\ UNCHANGED <<transport, inbox, calls>>
    /\ UNCHANGED <<groq_client, prompt, webhook>>

\* one iteration of async for
StreamChunk(c, chunk) ==
    /\ pc[c] = "streaming"
    /\ AllInputs < MaxEvents
    /\ IF chunk_skipped(chunk)
       THEN /\ Yielded(c, chunk)
            /\ NothingSent
            /\ UNCHANGED <<pc, log>>
       ELSE IF CanSend(c)
       THEN /\ Yielded(c, chunk)
            /\ Sent(c, partial_response(Current(c).data.fields.response_id,
                                        chunk_content(chunk)), Turn(c))
            /\ UNCHANGED <<pc, log>>
       ELSE /\ handled' = Put(handled, c, [handled[c] EXCEPT
                    ![Turn(c)].chunks = Append(Current(c).chunks, chunk),
                    ![Turn(c)].outcome = "send_error"])
            /\ log' = Logged(c, "error", "Error streaming from Groq")
            /\ pc' = Put(pc, c, "ready")
            /\ NothingSent
    /\ UNCHANGED <<transport, inbox, calls>>
    /\ UNCHANGED <<groq_client, prompt, webhook>>

\* Mutant: the session ends with the final frame.
StreamEnds_Closes(c) ==
    /\ pc[c] = "streaming"
    /\ IF CanSend(c)
       THEN /\ Ended(c, "ok")
            /\ Sent(c, final_response(Current(c).data.fields.response_id), Turn(c))
            /\ pc' = Put(pc, c, "closed")
            /\ UNCHANGED log
       ELSE Swallowed(c, "send_error")
    /\ UNCHANGED <<transport, inbox, calls>>
    /\ UNCHANGED <<groq_client, prompt, webhook>>

\* the stream is exhausted: the final frame
StreamEnds(c) ==
    /\ pc[c] = "streaming"
    /\ IF CanSend(c)
       THEN /\ Ended(c, "ok")
            /\ Sent(c, final_response(Current(c).data.fields.response_id), Turn(c))
            /\ pc' = Put(pc, c, "ready")
            /\ UNCHANGED log
       ELSE Swallowed(c, "send_error")
    /\ UNCHANGED <<transport, inbox, calls>>
    /\ UNCHANGED <<groq_client, prompt, webhook>>

\* the stream raises: a network or provider error, or a malformed chunk
StreamRaises(c) ==
    /\ pc[c] = "streaming"
    /\ Swallowed(c, "upstream_error")
    /\ UNCHANGED <<transport, inbox, calls>>
    /\ UNCHANGED <<groq_client, prompt, webhook>>

-----------------------------------------------------------------------------
\* One session

Session(c) ==
    \/ Accept(c)
    \/ SendConfig(c)
    \/ ReceiveDisconnect(c)
    \/ BadPayload(c)
    \/ CallDetails(c)
    \/ PingPong(c)
    \/ UpdateOnly(c)
    \/ UnknownType(c)
    \/ DraftResponse(c)
    \/ CreateRaises(c)
    \/ CreateReturns(c)
    \/ \E chunk \in Chunks : StreamChunk(c, chunk)
    \/ StreamEnds(c)
    \/ StreamRaises(c)

Environment(c) ==
    \/ \E data \in Texts : PeerSend(c, data)
    \/ TransportClose(c)

\* No session has begun.
NoSession ==
    /\ pc = [c \in Conns |-> "connecting"]
    /\ transport = [c \in Conns |-> "open"]
    /\ inbox = [c \in Conns |-> <<>>]
    /\ handled = [c \in Conns |-> <<>>]
    /\ outbound = [c \in Conns |-> <<>>]
    /\ sentFor = [c \in Conns |-> <<>>]
    /\ calls = [c \in Conns |-> <<>>]
    /\ log = [c \in Conns |-> <<>>]

\* Nothing has been called.
NoCall == [call |-> "none"]

\* The server is up (lifespan has built the provider client) and no connection
\* has been made.
Init ==
    /\ NoSession
    /\ groq_client = "open"
    /\ prompt = NoCall
    /\ webhook = NoCall

\* One call on one connection.
Next == Session("call-1") \/ Environment("call-1")

Spec == Init /\ [][Next]_vars

\* The completion call returns or raises, and the stream it returns ends or
\* raises: the provider does not leave a request or a stream hanging for ever.
Fairness ==
    \A c \in Conns :
        /\ WF_vars(CreateRaises(c) \/ CreateReturns(c))
        /\ WF_vars(StreamEnds(c) \/ StreamRaises(c))

FairSpec == Init /\ [][Next]_vars /\ Fairness

-----------------------------------------------------------------------------
\* Two calls at once, each on its own connection, and the server's shutdown.

\* What the peer of each connection sends.
TextsOf(c) ==
    IF c = "call-1"
    THEN { [kind |-> "garbage"],
           Object([interaction_type |-> "ping_pong", timestamp |-> 12345]),
           Object([interaction_type |-> "update_only", transcript |-> NoRoleTranscript]),
           Object([interaction_type |-> "response_required", response_id |-> 1,
                   transcript |-> GoodTranscript]) }
    ELSE { Object([interaction_type |-> "call_details"]),
           Object([interaction_type |-> "hangup"]),
           Object([interaction_type |-> "reminder_required", response_id |-> 2]) }

\* lifespan after yield: the server has closed its connections and closes the
\* provider client.
Shutdown ==
    /\ groq_client = "open"
    /\ \A c \in Conns : pc[c] \in {"connecting", "closed"}
    /\ groq_client' = "closed"
    /\ UNCHANGED <<pc, transport, inbox, handled, outbound, sentFor, calls, log,
                   prompt, webhook>>

EnvironmentOf(c) ==
    \/ \E data \in TextsOf(c) : PeerSend(c, data)
    \/ TransportClose(c)

NextTwo == Shutdown \/ \E c \in Conns : Session(c) \/ EnvironmentOf(c)

SpecTwo == Init /\ [][NextTwo]_vars

-----------------------------------------------------------------------------
\* The prompt functions on their own: _conversation_to_chat_messages and
\* _prepare_prompt applied to requests whose transcript has 0..MaxLen utterances.

\* The roles of a transcript's utterances, taken in a cycle.
RoleCycles ==
    { <<"agent", "user">>,
      <<"user", "agent">>,
      <<"agent", "caller", "user">>,
      <<"system">> }

\* A transcript of n utterances; the content of each tells its place.
Utterances(cycle, n) ==
    [i \in 1..n |-> [role |-> cycle[((i - 1) % Len(cycle)) + 1], content |-> ToString(i)]]

Transcripts == {Utterances(cycle, n) : cycle \in RoleCycles, n \in 0..MaxLen}

InteractionTypes == {"response_required", "reminder_required", "update_only"}

\* Requests with and without a transcript, with and without an interaction_type.
Requests ==
    {[interaction_type |-> type, transcript |-> transcript] :
         type \in InteractionTypes, transcript \in Transcripts}
    \cup {[transcript |-> transcript] : transcript \in Transcripts}
    \cup {[interaction_type |-> type] : type \in InteractionTypes}
    \cup {<<>>}

InitPrompt ==
    /\ NoSession
    /\ groq_client = "open"
    /\ webhook = NoCall
    /\ prompt \in {[call |-> "pending", request |-> r] : r \in Requests}

Adapt ==
    /\ prompt.call = "pending"
    /\ "transcript" \in DOMAIN prompt.request
    /\ prompt' = [call |-> "_conversation_to_chat_messages",
                  request |-> prompt.request,
                  returned |-> _conversation_to_chat_messages(prompt.request.transcript)]
    /\ UNCHANGED <<pc, transport, inbox, handled, outbound, sentFor, calls, log,
                   groq_client, webhook>>

Prepare ==
    /\ prompt.call = "pending"
    /\ prompt' = [call |-> "_prepare_prompt",
                  request |-> prompt.request,
                  returned |-> _prepare_prompt(prompt.request)]
    /\ UNCHANGED <<pc, transport, inbox, handled, outbound, sentFor, calls, log,
                   groq_client, webhook>>

NextPrompt == Adapt \/ Prepare

PromptSpec == InitPrompt /\ [][NextPrompt]_vars

-----------------------------------------------------------------------------
\* server.py: POST /webhook

Events == {"call_started", "call_ended", "call_analyzed", "call_transferred"}

\* body["data"]: an object with or without call_id, or null.
Data == {Object([call_id |-> "call-1"]), Object(<<>>), [kind |-> "null"]}

\* JSON objects with and without event, with and without data.
Bodies ==
    {[event |-> event, data |-> data] : event \in Events, data \in Data}
    \cup {[event |-> event] : event \in Events}
    \cup {[data |-> data] : data \in Data}
    \cup {<<>>}

\* The request headers: no x-retell-signature, an empty one, or a signature.
Headers == {<<>>, "x-retell-signature" :> "", "x-retell-signature" :> "v=1,d=abc"}

\* retell_client is None unless RETELL_API_KEY is set.  Retell.verify is the
\* SDK's: verify is what it returns for the body, the key and the signature.
WebhookRequests ==
    [call : {"pending"}, retell_client : {None, <<"Retell">>},
     headers : Headers, body : Bodies, verify : BOOLEAN]

\* retell_client and request.headers.get("x-retell-signature")
Verifies(req) ==
    /\ req.retell_client # None
    /\ Get(req.headers, "x-retell-signature") \notin {None, <<"">>}

\* The line logged for an event.
EventLine(event) ==
    IF event = <<"call_started">> THEN "Call started"
    ELSE IF event = <<"call_ended">> THEN "Call ended"
    ELSE IF event = <<"call_analyzed">> THEN "Call analyzed"
    ELSE "Unknown webhook event"

\* Mutant: a signature that does not verify is logged and the event processed.
webhook_response_LogsOnly(req) ==
    [status_code |-> 200, content |-> [received |-> TRUE],
     log |-> (IF Verifies(req) /\ ~req.verify
              THEN <<[level |-> "error", msg |-> "Invalid webhook signature"]>> ELSE <<>>)
             \o <<[level |-> "info", msg |-> EventLine(Get(req.body, "event"))]>>]

\* Mutant: with a key configured every request is verified, its signature
\* header present or not.
webhook_response_AlwaysVerifies(req) ==
    IF req.retell_client # None
       /\ (Get(req.headers, "x-retell-signature") \in {None, <<"">>} \/ ~req.verify)
    THEN [status_code |-> 401, content |-> [error |-> "Invalid signature"],
          log |-> <<[level |-> "error", msg |-> "Invalid webhook signature"]>>]
    ELSE [status_code |-> 200, content |-> [received |-> TRUE],
          log |-> <<[level |-> "info", msg |-> EventLine(Get(req.body, "event"))]>>]

\* The response of the handler and the lines it logs.  body.get("data", {}) that
\* is no dict has no get: the exception leaves the handler and the framework
\* answers 500.
webhook_response(req) ==
    IF Verifies(req) /\ ~req.verify
    THEN [status_code |-> 401, content |-> [error |-> "Invalid signature"],
          log |-> <<[level |-> "error", msg |-> "Invalid webhook signature"]>>]
    ELSE IF "data" \in DOMAIN req.body /\ req.body.data.kind # "object"
    THEN [status_code |-> 500, content |-> [detail |-> "Internal Server Error"],
          log |-> <<>>]
    ELSE [status_code |-> 200, content |-> [received |-> TRUE],
          log |-> <<[level |-> "info", msg |-> EventLine(Get(req.body, "event"))]>>]

InitWebhook ==
    /\ NoSession
    /\ groq_client = "open"
    /\ prompt = NoCall
    /\ webhook \in WebhookRequests

Webhook ==
    /\ webhook.call = "pending"
    /\ webhook' = [call |-> "webhook", request |-> webhook,
                   verified |-> IF Verifies(webhook) THEN <<webhook.verify>> ELSE None,
                   response |-> webhook_response(webhook)]
    /\ UNCHANGED <<pc, transport, inbox, handled, outbound, sentFor, calls, log,
                   groq_client, prompt>>

NextWebhook == Webhook

WebhookSpec == InitWebhook /\ [][NextWebhook]_vars

-----------------------------------------------------------------------------
\* Vocabulary of the properties

\* The frames sent while inbound frame i was handled, in the order sent.
RECURSIVE Pick(_, _, _)
Pick(frames, tags, i) ==
    IF frames = <<>> THEN <<>>
    ELSE (IF Head(tags) = i THEN <<Head(frames)>> ELSE <<>>)
         \o Pick(Tail(frames), Tail(tags), i)

TurnFrames(c, i) == Pick(outbound[c], sentFor[c], i)

\* Inbound frame i asked for a response: a JSON object of type response_required
\* or reminder_required.
IsTurn(data) ==
    /\ data.kind = "object"
    /\ "interaction_type" \in DOMAIN data.fields
    /\ data.fields.interaction_type \in {"response_required", "reminder_required"}

Turns(c) == {i \in 1..Len(handled[c]) : IsTurn(handled[c][i].data)}

\* The text a chunk carries: empty when it has no choices, no delta or no content.
ChunkText(chunk) ==
    IF chunk.choices = <<>> THEN ""
    ELSE IF chunk.choices[1].delta = <<>> THEN ""
    ELSE IF chunk.choices[1].delta[1].content = <<>> THEN ""
    ELSE chunk.choices[1].delta[1].content[1]

PartialFrame(id, text) ==
    [response_type |-> "response", response_id |-> id, content |-> text,
     content_complete |-> FALSE, end_call |-> FALSE]

FinalFrame(id) ==
    [response_type |-> "response", response_id |-> id, content |-> "",
     content_complete |-> TRUE, end_call |-> FALSE]

\* One partial frame for each chunk that carries text, in chunk order.
RECURSIVE Relayed(_, _)
Relayed(id, chunks) ==
    IF chunks = <<>> THEN <<>>
    ELSE (IF ChunkText(Head(chunks)) = "" THEN <<>>
          ELSE <<PartialFrame(id, ChunkText(Head(chunks)))>>)
         \o Relayed(id, Tail(chunks))

\* The log records of the relay's except block.
RelayErrors(c) ==
    Cardinality({j \in 1..Len(log[c]) : log[c][j].msg = "Error streaming from Groq"})

-----------------------------------------------------------------------------
\* C1 as stated: a stream of k chunks that ends without error (every send having
\* succeeded) is answered by exactly k partial frames, one per chunk in chunk
\* order, and then one final frame.  Refuted by a chunk without content.
C1_OnePartialPerChunk ==
    \A c \in Conns : \A i \in Turns(c) :
        handled[c][i].outcome = "ok" =>
            LET frames == TurnFrames(c, i)
                chunks == handled[c][i].chunks
                id == handled[c][i].data.fields.response_id
            IN  /\ Len(frames) = Len(chunks) + 1
                /\ \A j \in 1..Len(chunks) :
                       frames[j] = PartialFrame(id, ChunkText(chunks[j]))
                /\ frames[Len(frames)] = FinalFrame(id)

\* C1, amended: when a completion stream yields k >= 0 chunks and ends without
\* error, and every send succeeds, the frames of the turn are one partial frame
\* for each chunk that carries non-empty content, in chunk order, and then exactly
\* one final frame with empty content and content_complete = true; the final
\* frame is there when no partial frame is.
C1_StreamRelayedThenFinal ==
    \A c \in Conns : \A i \in Turns(c) :
        handled[c][i].outcome = "ok" =>
            LET id == handled[c][i].data.fields.response_id
            IN  TurnFrames(c, i) = Relayed(id, handled[c][i].chunks) \o <<FinalFrame(id)>>

\* C1 witness: a finished turn whose stream yielded a chunk with text and a chunk
\* without: one partial frame and the final frame.
C1_Witness ==
    \E c \in Conns : \E i \in Turns(c) :
        /\ handled[c][i].outcome = "ok"
        /\ \E j, k \in 1..Len(handled[c][i].chunks) :
               /\ ChunkText(handled[c][i].chunks[j]) = ""
               /\ ChunkText(handled[c][i].chunks[k]) # ""
        /\ Len(TurnFrames(c, i)) = 2

\* C2 as stated: a turn whose completion call fails, at request time or at any
\* chunk, has sent no frame.  Refuted by a failure after a chunk was relayed.
C2_NoFrameInFailedTurn ==
    \A c \in Conns : \A i \in Turns(c) :
        handled[c][i].outcome = "upstream_error" => TurnFrames(c, i) = <<>>

\* C2, amended: when the completion call fails in a turn, the frames of the turn
\* are the partial frames of the chunks with content that arrived before the
\* failure and nothing else (none when the request itself fails): nothing is sent
\* at or after the failure, which shows only as an error record in the log.
C2_FailureSendsNothingMore ==
    \A c \in Conns :
        /\ \A i \in Turns(c) :
               handled[c][i].outcome = "upstream_error" =>
                   /\ TurnFrames(c, i) = Relayed(handled[c][i].data.fields.response_id,
                                                 handled[c][i].chunks)
                   /\ RelayErrors(c) >= 1
        /\ RelayErrors(c) =
               Cardinality({i \in Turns(c) :
                   handled[c][i].outcome \in {"upstream_error", "send_error"}})

\* C2 witness: a turn whose stream raised after its one chunk had been relayed.
C2_Witness ==
    \E c \in Conns : \E i \in Turns(c) :
        /\ handled[c][i].outcome = "upstream_error"
        /\ Len(TurnFrames(c, i)) = 1
        /\ Len(handled[c][i].chunks) = 1

\* C3 as stated: the response frames of a turn are zero or more partial frames
\* and then exactly one final frame.  Refuted by a turn whose completion call
\* fails: it has no final frame.
C3_ExactlyOneFinal ==
    \A c \in Conns : \A i \in Turns(c) :
        handled[c][i].outcome \in {"ok", "upstream_error"} =>
            LET frames == TurnFrames(c, i)
            IN  /\ Len(frames) >= 1
                /\ {j \in 1..Len(frames) : frames[j].content_complete} = {Len(frames)}

\* C3, amended: on one connection and for any inbound frames, the frames sent
\* for a turn are zero or more partial frames followed by at most one final
\* frame (exactly one when the stream ends without error and every send
\* succeeds, none when the completion call or a send fails); all are response
\* frames with the response_id of the request they answer, and no other frame
\* is sent between the first and the last of them.
C3_TurnFramesWellFormed ==
    \A c \in Conns : \A i \in Turns(c) :
        LET at == {j \in 1..Len(outbound[c]) : sentFor[c][j] = i}
            frames == TurnFrames(c, i)
            finals == {j \in 1..Len(frames) : frames[j].content_complete}
            outcome == handled[c][i].outcome
        IN  /\ \A j, k \in at : \A m \in j..k : m \in at
            /\ outcome = "loop_error" => frames = <<>>
            /\ \A j \in 1..Len(frames) :
                   /\ frames[j].response_type = "response"
                   /\ frames[j].response_id = handled[c][i].data.fields.response_id
                   /\ frames[j].content_complete => frames[j].content = ""
            /\ finals \subseteq {Len(frames)}
            /\ outcome = "ok" => finals = {Len(frames)} /\ frames # <<>>
            /\ outcome # "ok" => finals = {}

\* C3 witness: two turns with different response_ids on one connection: the first failed
\* after a partial frame, the second ended with its final frame.
C3_Witness ==
    \E c \in Conns : \E i, k \in Turns(c) :
        /\ i < k
        /\ handled[c][i].outcome = "upstream_error"
        /\ TurnFrames(c, i) # <<>>
        /\ handled[c][k].outcome = "ok"
        /\ handled[c][i].data.fields.response_id # handled[c][k].data.fields.response_id

\* The step in which the completion call of a turn fails.
UpstreamFails(c) ==
    /\ handled[c] # <<>>
    /\ handled[c][Len(handled[c])].outcome = "running"
    /\ Len(handled'[c]) = Len(handled[c])
    /\ handled'[c][Len(handled[c])].outcome = "upstream_error"

\* C4: when the completion call fails in a turn, the failing step sends nothing
\* and returns to the receive loop (the exception does not reach it), so the
\* session is open and reads the next inbound frame; the frames of the turn are
\* partial frames whose text came from the stream: none has content_complete =
\* true and none carries error text.
C4_FailureIsSwallowed ==
    /\ [][\A c \in Conns : UpstreamFails(c) =>
            /\ outbound'[c] = outbound[c]
            /\ pc'[c] = "ready"
            /\ inbox'[c] = inbox[c]]_vars
    /\ [](\A c \in Conns : \A i \in Turns(c) :
            handled[c][i].outcome = "upstream_error" =>
                /\ \A j \in 1..Len(TurnFrames(c, i)) :
                       /\ ~TurnFrames(c, i)[j].content_complete
                       /\ TurnFrames(c, i)[j].content \in
                              {ChunkText(handled[c][i].chunks[k]) :
                                   k \in 1..Len(handled[c][i].chunks)}
                /\ i = Len(handled[c]) /\ inbox[c] # <<>> => pc[c] = "ready")

\* C4 witness: after a failed turn the next inbound frame was read and answered.
C4_Witness ==
    \E c \in Conns : \E i \in Turns(c) :
        /\ handled[c][i].outcome = "upstream_error"
        /\ i < Len(handled[c])
        /\ handled[c][i + 1].outcome = "ok"
        /\ TurnFrames(c, i + 1) # <<>>

\* The receive loop has exited: one of its except blocks has logged.
Exited(c) ==
    \E j \in 1..Len(log[c]) : log[c][j].msg \in {"WebSocket closed", "WebSocket error"}

\* C5: once the receive loop has exited, on a closed transport or on an
\* exception that reached it, the session is CLOSED and stays so: no frame is
\* sent on the connection afterwards and no inbound frame is read.
C5_ClosedIsFinal ==
    /\ [](\A c \in Conns : Exited(c) => pc[c] = "closed")
    /\ [][\A c \in Conns : pc[c] = "closed" =>
            /\ pc'[c] = "closed"
            /\ outbound'[c] = outbound[c]
            /\ handled'[c] = handled[c]
            /\ inbox'[c] = inbox[c]]_vars

\* C5 witness: the loop has exited while a frame was still unread.
C5_Witness ==
    \E c \in Conns :
        /\ pc[c] = "closed"
        /\ Exited(c)
        /\ inbox[c] # <<>>
        /\ outbound[c] # <<>>

\* C6: the first outbound frame of a connection is the config frame
\* {auto_reconnect: true, call_details: true}; it is sent once, after the
\* handshake is accepted and before any inbound frame is read, and no config
\* frame is sent later.
C6_ConfigFirstAndOnce ==
    \A c \in Conns :
        /\ pc[c] \in {"connecting", "accepted"} => outbound[c] = <<>> /\ handled[c] = <<>>
        /\ pc[c] \in {"ready", "requesting", "streaming"} \/ handled[c] # <<>> =>
               outbound[c] # <<>>
        /\ outbound[c] # <<>> =>
               /\ outbound[c][1] = [response_type |-> "config",
                                    config |-> [auto_reconnect |-> TRUE, call_details |-> TRUE]]
               /\ sentFor[c][1] = 0
        /\ \A j \in 2..Len(outbound[c]) : outbound[c][j].response_type # "config"

\* C6 witness: a session that has read a frame and sent a frame after the config frame.
C6_Witness ==
    \E c \in Conns : Len(outbound[c]) >= 2 /\ handled[c] # <<>>

\* The step in which the loop reads the next inbound frame, Head(inbox[c]).
ReadsFrame(c) ==
    /\ pc[c] = "ready"
    /\ inbox[c] # <<>>
    /\ Len(handled'[c]) = Len(handled[c]) + 1

IsType(data, type) ==
    /\ data.kind = "object"
    /\ "interaction_type" \in DOMAIN data.fields
    /\ data.fields.interaction_type = type

\* C7: handling a ping_pong frame with timestamp t in READY, the connection being
\* open, sends exactly one frame, {response_type: ping_pong, timestamp: t}, makes
\* no completion call and leaves the session in READY.
C7_PingPongEchoed ==
    [][\A c \in Conns :
        /\ ReadsFrame(c)
        /\ IsType(Head(inbox[c]), "ping_pong")
        /\ "timestamp" \in DOMAIN Head(inbox[c]).fields
        /\ transport[c] = "open"
        => /\ outbound'[c] = Append(outbound[c],
                   [response_type |-> "ping_pong",
                    timestamp |-> <<Head(inbox[c]).fields.timestamp>>])
           /\ calls'[c] = calls[c]
           /\ pc'[c] = "ready"]_vars

\* C7 witness: a ping_pong with timestamp 12345 was answered by its echo alone.
C7_Witness ==
    \E c \in Conns : \E i \in 1..Len(handled[c]) :
        /\ IsType(handled[c][i].data, "ping_pong")
        /\ handled[c][i].outcome = "ok"
        /\ TurnFrames(c, i) = <<[response_type |-> "ping_pong", timestamp |-> <<12345>>]>>

\* C8: handling a call_details frame, the connection being open, sends exactly
\* one frame: the response frame with response_id 0, the scripted opening line,
\* content_complete = true and end_call = false; no completion call is made.
C8_CallDetailsOpens ==
    [][\A c \in Conns :
        /\ ReadsFrame(c)
        /\ IsType(Head(inbox[c]), "call_details")
        /\ transport[c] = "open"
        => /\ outbound'[c] = Append(outbound[c],
                   [response_type |-> "response", response_id |-> 0,
                    content |-> "Hey there, am I speaking with Marcus?",
                    content_complete |-> TRUE, end_call |-> FALSE])
           /\ calls'[c] = calls[c]
           /\ pc'[c] = "ready"]_vars

\* C8 witness: a call_details frame was answered by the opening line.
C8_Witness ==
    \E c \in Conns : \E i \in 1..Len(handled[c]) :
        /\ IsType(handled[c][i].data, "call_details")
        /\ handled[c][i].outcome = "ok"
        /\ Len(TurnFrames(c, i)) = 1
        /\ TurnFrames(c, i)[1].response_id = 0
        /\ calls[c] = <<>>

\* A JSON object whose interaction_type is update_only, or absent, or any value
\* that is not call_details, ping_pong, response_required or reminder_required.
Ignored(data) ==
    /\ data.kind = "object"
    /\ \/ "interaction_type" \notin DOMAIN data.fields
       \/ data.fields.interaction_type \notin
              {"call_details", "ping_pong", "response_required", "reminder_required"}

\* C9: handling an update_only frame, or a frame whose interaction_type is
\* absent or not one of the five known values, sends no frame, makes no
\* completion call and leaves the session in READY; nothing of the frame is
\* kept: the step only takes the frame off the inbound queue.
C9_IgnoredFramesDoNothing ==
    [][\A c \in Conns :
        ReadsFrame(c) /\ Ignored(Head(inbox[c]))
        => /\ outbound'[c] = outbound[c]
           /\ calls'[c] = calls[c]
           /\ pc'[c] = "ready"
           /\ transport'[c] = transport[c]
           /\ inbox'[c] = Tail(inbox[c])
           /\ handled'[c][Len(handled'[c])].outcome = "ok"]_vars

\* C9 witness: an update_only frame and a frame without interaction_type were handled
\* and the session is still READY with nothing sent but the config frame.
C9_Witness ==
    \E c \in Conns : \E i, k \in 1..Len(handled[c]) :
        /\ IsType(handled[c][i].data, "update_only")
        /\ Ignored(handled[c][k].data)
        /\ "interaction_type" \notin DOMAIN handled[c][k].data.fields
        /\ pc[c] = "ready"
        /\ Len(outbound[c]) = 1

\* An utterance of the frame's transcript lacks role or content.
BadUtterance(data) ==
    /\ "transcript" \in DOMAIN data.fields
    /\ \E n \in 1..Len(data.fields.transcript) :
           ~({"role", "content"} \subseteq DOMAIN data.fields.transcript[n])

\* Text that is not JSON, JSON that is not an object, and a response_required or
\* reminder_required frame without response_id or with such an utterance.
Malformed(data) ==
    \/ data.kind # "object"
    \/ IsTurn(data) /\ ("response_id" \notin DOMAIN data.fields \/ BadUtterance(data))

\* C10: a malformed inbound payload ends the receive loop (the transcript being
\* read only in a response_required or reminder_required frame): no frame is
\* sent and no completion call made for it, no later frame is handled, and the
\* exception is logged by the loop, not by the relay.
C10_MalformedIsFatal ==
    \A c \in Conns : \A i \in 1..Len(handled[c]) :
        Malformed(handled[c][i].data) =>
            /\ i = Len(handled[c])
            /\ pc[c] = "closed"
            /\ TurnFrames(c, i) = <<>>
            /\ \A n \in 1..Len(calls[c]) : calls[c][n].turn # i
            /\ handled[c][i].outcome = "loop_error"
            /\ log[c][Len(log[c])] = [level |-> "error", msg |-> "WebSocket error"]

\* C10 witness: the loop ended on an utterance without role or content while
\* another frame was waiting to be read.
C10_Witness ==
    \E c \in Conns :
        /\ handled[c] # <<>>
        /\ IsTurn(handled[c][Len(handled[c])].data)
        /\ "response_id" \in DOMAIN handled[c][Len(handled[c])].data.fields
        /\ BadUtterance(handled[c][Len(handled[c])].data)
        /\ inbox[c] # <<>>
        /\ pc[c] = "closed"

\* Utterance u as a chat message: assistant for the agent, user for anyone else.
Adapted(u) ==
    [role |-> IF u.role = "agent" THEN "assistant" ELSE "user", content |-> u.content]

\* C11: for a transcript of L >= 0 utterances, _conversation_to_chat_messages
\* returns L messages; the i-th has the content of the i-th utterance, and the
\* role assistant if that utterance's role is agent and user for any other role.
C11_AdapterMapsEachUtterance ==
    prompt.call = "_conversation_to_chat_messages" =>
        LET transcript == prompt.request.transcript
        IN  /\ ~prompt.returned.raised
            /\ Len(prompt.returned.value) = Len(transcript)
            /\ \A i \in 1..Len(transcript) :
                   /\ prompt.returned.value[i].content = transcript[i].content
                   /\ transcript[i].role = "agent" =>
                          prompt.returned.value[i].role = "assistant"
                   /\ transcript[i].role # "agent" =>
                          prompt.returned.value[i].role = "user"

\* C11 witness: a transcript of agent, caller and user, in that order, was
\* adapted to assistant, user and user.
C11_Witness ==
    /\ prompt.call = "_conversation_to_chat_messages"
    /\ Len(prompt.request.transcript) = 3
    /\ prompt.request.transcript[2].role = "caller"
    /\ prompt.returned.value =
           <<[role |-> "assistant", content |-> "1"], [role |-> "user", content |-> "2"],
             [role |-> "user", content |-> "3"]>>

\* C12: _prepare_prompt returns the system message, then the last min(L, 10)
\* adapted messages of the transcript in their order (L = 0 for a missing or
\* empty transcript), then the silence nudge as a user message if and only if
\* interaction_type is reminder_required, and nothing else.
C12_PromptIsSystemWindowNudge ==
    prompt.call = "_prepare_prompt" =>
        LET transcript == IF "transcript" \in DOMAIN prompt.request
                          THEN prompt.request.transcript ELSE <<>>
            L == Len(transcript)
            kept == IF L < 10 THEN L ELSE 10
            reminder == /\ "interaction_type" \in DOMAIN prompt.request
                        /\ prompt.request.interaction_type = "reminder_required"
            messages == prompt.returned.value
        IN  /\ ~prompt.returned.raised
            /\ Len(messages) = 1 + kept + (IF reminder THEN 1 ELSE 0)
            /\ messages[1] = [role |-> "system", content |-> SYSTEM_PROMPT]
            /\ \A j \in 1..kept : messages[1 + j] = Adapted(transcript[L - kept + j])
            /\ reminder => messages[Len(messages)] =
                   [role |-> "user",
                    content |-> "(The caller has been silent for a moment. Gently check in or re-engage them.)"]

\* C12 witness: a reminder_required request with a transcript of 12 utterances:
\* the system message, utterances 3 to 12 and the nudge.
C12_Witness ==
    /\ prompt.call = "_prepare_prompt"
    /\ "transcript" \in DOMAIN prompt.request
    /\ Len(prompt.request.transcript) = 12
    /\ Len(prompt.returned.value) = 12
    /\ prompt.returned.value[2].content = "3"
    /\ prompt.returned.value[11].content = "12"
    /\ prompt.returned.value[12].role = "user"

\* The request carries a signature: an x-retell-signature header that is not empty.
HasSignature(req) ==
    /\ "x-retell-signature" \in DOMAIN req.headers
    /\ req.headers["x-retell-signature"] # ""

\* A payload of the webhook interface: a JSON object whose data, if it has
\* any, is an object.
IsPayload(body) == "data" \in DOMAIN body => body.data.kind = "object"

\* The request was accepted: 200 {"received": true}, and its event logged.
Accepted(w) ==
    /\ w.response.status_code = 200
    /\ w.response.content = [received |-> TRUE]
    /\ Len(w.response.log) = 1
    /\ w.response.log[1].level = "info"

Local(c) ==
    <<pc[c], transport[c], inbox[c], handled[c], outbound[c], sentFor[c], calls[c], log[c]>>

\* Frame answers the inbound frame data: the echo of a ping_pong, the opening
\* line for call_details, a response frame with the response_id of a
\* response_required or reminder_required.
Answers(frame, data) ==
    IF IsType(data, "ping_pong")
    THEN frame = [response_type |-> "ping_pong", timestamp |-> Get(data.fields, "timestamp")]
    ELSE IF IsType(data, "call_details")
    THEN /\ frame.response_type = "response"
         /\ frame.response_id = 0
         /\ frame.content = "Hey there, am I speaking with Marcus?"
    ELSE /\ IsTurn(data)
         /\ frame.response_type = "response"
         /\ frame.response_id = data.fields.response_id

\* C14: with two sessions running at once, in any interleaving, every frame
\* sent on a connection is its config frame or answers an inbound frame read
\* on that connection; a step of one session (its failure and its closing
\* included) changes nothing of the other session, neither its state nor what
\* it can do next, and does not change the provider client they share.
C14_ConnectionsIndependent ==
    /\ [](\A c \in Conns : \A j \in 1..Len(outbound[c]) :
            IF sentFor[c][j] = 0
            THEN j = 1 /\ outbound[c][j].response_type = "config"
            ELSE /\ sentFor[c][j] \in 1..Len(handled[c])
                 /\ Answers(outbound[c][j], handled[c][sentFor[c][j]].data))
    /\ [][\A c, d \in Conns :
            c # d /\ Local(c)' # Local(c) =>
                /\ Local(d)' = Local(d)
                /\ groq_client' = groq_client
                /\ (ENABLED Session(d))' = ENABLED Session(d)]_vars

\* C14 witness: the session of call-1 answered a ping and then ended on a
\* payload that is no JSON, the transport still open; the session of call-2
\* answered a reminder_required with its final frame and is READY.
C14_Witness ==
    /\ pc["call-1"] = "closed"
    /\ transport["call-1"] = "open"
    /\ Len(outbound["call-1"]) = 2
    /\ Len(handled["call-1"]) = 2
    /\ handled["call-1"][2].outcome = "loop_error"
    /\ pc["call-2"] = "ready"
    /\ Len(handled["call-2"]) = 1
    /\ handled["call-2"][1].outcome = "ok"
    /\ Len(outbound["call-2"]) = 2
    /\ outbound["call-2"][2].response_id = 2

\* The turns of a connection whose response is being generated.
InFlight(c) == {i \in 1..Len(handled[c]) : handled[c][i].outcome = "running"}

\* C15: on one connection at most one response is being generated, and it is
\* for the frame read last; while it is, no inbound frame is read: a frame that
\* arrives waits, in arrival order, until the turn has ended; the outbound
\* frames are in the order of the inbound frames they answer.
C15_OneTurnAtATime ==
    /\ [](\A c \in Conns :
            /\ InFlight(c) \subseteq {Len(handled[c])}
            /\ pc[c] \in {"requesting", "streaming"} <=> InFlight(c) # {}
            /\ \A j, k \in 1..Len(sentFor[c]) : j < k => sentFor[c][j] <= sentFor[c][k])
    /\ [][\A c \in Conns :
            /\ InFlight(c) # {} =>
                   /\ Len(handled'[c]) = Len(handled[c])
                   /\ calls'[c] = calls[c]
                   /\ SubSeq(inbox'[c], 1, Len(inbox[c])) = inbox[c]
            /\ Len(handled'[c]) > Len(handled[c]) =>
                   /\ pc[c] = "ready"
                   /\ handled'[c][Len(handled'[c])].data = Head(inbox[c])]_vars

\* C15 witness: a turn is streaming and has sent a partial frame, and a
\* ping_pong of the peer is waiting unread.
C15_Witness ==
    \E c \in Conns :
        /\ pc[c] = "streaming"
        /\ inbox[c] # <<>>
        /\ IsType(Head(inbox[c]), "ping_pong")
        /\ Len(TurnFrames(c, Len(handled[c]))) = 1

\* The state of a session in the terms of the specification.
State(c) ==
    IF pc[c] \in {"connecting", "accepted"} THEN "CONNECTING"
    ELSE IF pc[c] = "ready" THEN "READY"
    ELSE IF pc[c] \in {"requesting", "streaming"} THEN "AWAITING_RESPONSE"
    ELSE "CLOSED"

\* C16: a session goes CONNECTING -> READY -> (AWAITING_RESPONSE -> READY)* ->
\* CLOSED: READY is entered from CONNECTING or AWAITING_RESPONSE, AWAITING_RESPONSE
\* from READY only and it is left for READY only, in the step in which the
\* stream ends or fails; CLOSED is entered from READY (or from CONNECTING, when
\* the connection is lost before the config frame is sent) and never left.  A
\* turn that enters AWAITING_RESPONSE leaves it for READY, provided the
\* completion call and its stream end or fail.
C16_SessionStateMachine ==
    /\ [][\A c \in Conns :
            /\ State(c)' # State(c) =>
                   <<State(c), State(c)'>> \in
                       { <<"CONNECTING", "READY">>, <<"READY", "AWAITING_RESPONSE">>,
                         <<"AWAITING_RESPONSE", "READY">>, <<"READY", "CLOSED">>,
                         <<"CONNECTING", "CLOSED">> }
            /\ State(c) = "CONNECTING" /\ State(c)' = "CLOSED" =>
                   transport[c] = "closed" /\ outbound[c] = <<>>
            /\ State(c) = "AWAITING_RESPONSE" /\ State(c)' = "READY" =>
                   handled'[c][Len(handled'[c])].outcome \in
                       {"ok", "upstream_error", "send_error"}]_vars
    /\ \A c \in Conns : State(c) = "AWAITING_RESPONSE" ~> State(c) = "READY"

\* C16 witness: a session that is CLOSED after two turns, the first ended by its
\* final frame and the second by a failure of the stream.
C16_Witness ==
    \E c \in Conns :
        /\ State(c) = "CLOSED"
        /\ Len(handled[c]) = 2
        /\ handled[c][1].outcome = "ok"
        /\ handled[c][2].outcome = "upstream_error"

\* The partial frames among frames, in their order.
RECURSIVE Partials(_)
Partials(frames) ==
    IF frames = <<>> THEN <<>>
    ELSE (IF Head(frames).content_complete THEN <<>> ELSE <<Head(frames)>>)
         \o Partials(Tail(frames))

\* C17: every partial response frame has non-empty content, so a response
\* frame with empty content is a final frame; the partial frames of a turn are
\* those of the chunks with non-empty content, in order: a chunk with no
\* choices, no delta or empty content produces no frame.
C17_PartialsCarryText ==
    \A c \in Conns :
        /\ \A j \in 1..Len(outbound[c]) :
               outbound[c][j].response_type = "response" =>
                   /\ ~outbound[c][j].content_complete => outbound[c][j].content # ""
                   /\ outbound[c][j].content = "" =>
                          /\ outbound[c][j].content_complete
                          /\ sentFor[c][j] \in Turns(c)
        /\ \A i \in Turns(c) :
               handled[c][i].outcome # "loop_error" =>
                   LET sent == Partials(TurnFrames(c, i))
                       due == Relayed(handled[c][i].data.fields.response_id,
                                      handled[c][i].chunks)
                   IN  /\ Len(sent) <= Len(due)
                       /\ sent = SubSeq(due, 1, Len(sent))
                       /\ handled[c][i].outcome # "send_error" => sent = due

\* C17 witness: a stream has yielded a chunk whose content is the empty string
\* and a chunk with text, and is still running: one partial frame was sent.
C17_Witness ==
    \E c \in Conns :
        /\ pc[c] = "streaming"
        /\ \E j, k \in 1..Len(Current(c).chunks) :
               /\ Current(c).chunks[j] = [choices |-> <<[delta |-> <<[content |-> <<"">>]>>]>>]
               /\ ChunkText(Current(c).chunks[k]) # ""
        /\ Len(TurnFrames(c, Len(handled[c]))) = 1

\* C18: the webhook answers 401 if and only if a key is configured, the
\* request carries a signature in x-retell-signature and its verification
\* fails; in particular a POST without that header is not verified at all and
\* is accepted with 200 {"received": true} even when a key is configured.
C18_RejectedIffVerificationFails ==
    webhook.call = "webhook" =>
        LET req == webhook.request
        IN  /\ webhook.response.status_code = 401 <=>
                   /\ req.retell_client # None
                   /\ HasSignature(req)
                   /\ ~req.verify
            /\ webhook.response.status_code = 401 <=> webhook.verified = <<FALSE>>
            /\ webhook.verified # None => req.retell_client # None /\ HasSignature(req)
            /\ "x-retell-signature" \notin DOMAIN req.headers =>
                   /\ webhook.verified = None
                   /\ IsPayload(req.body) => Accepted(webhook)

\* C18 witness: with a key configured, a POST without x-retell-signature, whose
\* signature would not have verified, was accepted.
C18_Witness ==
    /\ webhook.call = "webhook"
    /\ webhook.request.retell_client # None
    /\ "x-retell-signature" \notin DOMAIN webhook.request.headers
    /\ ~webhook.request.verify
    /\ webhook.response.status_code = 200
    /\ webhook.response.content = [received |-> TRUE]

\* The step in which a send of the relay fails: the turn in flight ends as
\* send_error.
SendFails(c) ==
    /\ InFlight(c) # {}
    /\ Len(handled'[c]) = Len(handled[c])
    /\ handled'[c][Len(handled[c])].outcome = "send_error"

\* The turn read last ended on a failed send and nothing is queued.
AfterFailedSend(c) ==
    /\ handled[c] # <<>>
    /\ handled[c][Len(handled[c])].outcome = "send_error"
    /\ inbox[c] = <<>>

\* C19: when a send fails while a turn is streamed (the peer has gone), the
\* relay's except block takes it as it takes an upstream failure: the failing
\* step sends nothing, logs the relay's error and returns to the loop, the
\* session READY; the turn has no later partial frame and no final frame.  The
\* relay does not end the session: with nothing left to read, the session ends
\* at the loop's next receive, which raises WebSocketDisconnect.
C19_SendFailureIsSwallowed ==
    /\ [][\A c \in Conns :
            /\ SendFails(c) =>
                   /\ transport[c] = "closed"
                   /\ outbound'[c] = outbound[c]
                   /\ pc'[c] = "ready"
                   /\ log'[c] = Append(log[c],
                          [level |-> "error", msg |-> "Error streaming from Groq"])
            /\ AfterFailedSend(c) /\ Local(c)' # Local(c) =>
                   /\ pc'[c] = "closed"
                   /\ handled'[c] = handled[c]
                   /\ outbound'[c] = outbound[c]
                   /\ log'[c] = Append(log[c],
                          [level |-> "info", msg |-> "WebSocket closed"])]_vars
    /\ [](\A c \in Conns : \A i \in Turns(c) :
            handled[c][i].outcome = "send_error" =>
                LET due == Relayed(handled[c][i].data.fields.response_id,
                                   handled[c][i].chunks)
                IN  /\ Len(TurnFrames(c, i)) <= Len(due)
                    /\ TurnFrames(c, i) = SubSeq(due, 1, Len(TurnFrames(c, i)))
                    /\ i = Len(handled[c]) => pc[c] \in {"ready", "closed"})

\* C19 witness: the peer went after the first partial frame of a turn; the send
\* of the second failed, and the session ended at the next receive.
C19_Witness ==
    \E c \in Conns :
        /\ AfterFailedSend(c)
        /\ Len(handled[c][Len(handled[c])].chunks) = 2
        /\ Len(TurnFrames(c, Len(handled[c]))) = 1
        /\ pc[c] = "closed"
        /\ log[c][Len(log[c])].msg = "WebSocket closed"

\* C20: no response frame sent on any connection, in any reachable state, has
\* end_call = true: not the opening line, not a partial frame, not a final frame.
C20_NeverEndsCall ==
    \A c \in Conns : \A j \in 1..Len(outbound[c]) :
        outbound[c][j].response_type = "response" =>
            /\ "end_call" \in DOMAIN outbound[c][j]
            /\ outbound[c][j].end_call = FALSE

\* C20 witness: the opening line, a partial frame and a final frame have been sent.
C20_Witness ==
    \E c \in Conns : \E i, j, k \in 1..Len(outbound[c]) :
        /\ outbound[c][i].response_type = "response" /\ outbound[c][i].response_id = 0
        /\ outbound[c][j].response_type = "response" /\ ~outbound[c][j].content_complete
        /\ outbound[c][k].response_type = "response" /\ outbound[c][k].response_id # 0
        /\ outbound[c][k].content_complete

====
